---- MODULE Spec2Model ----
(***************************************************************************)
(* A model of ts-binding: bidirectional contracts (transform / restore)    *)
(* over JavaScript values, the path stack of TransformationError, and the  *)
(* process-wide default SerializationConfig.                                *)
(*                                                                         *)
(* JavaScript values are records: k is the kind, and one more field, named *)
(* after the kind, holds the payload (u, b, n, s, a: the items of an       *)
(* array, o: the entries of an object, f: a function's name).  ref models  *)
(* the identity of an array or object: 0 is an object                      *)
(* allocated by the engine or by JSON.parse during a call, n > 0 is the    *)
(* n-th object that existed before the call (a schema constant).  Numbers  *)
(* are integers.  Strings and JSON texts are TLA+ strings.                 *)
(***************************************************************************)
EXTENDS Integers, Sequences, FiniteSets, TLC

VARIABLES
  DefaultSerializationConfig,  \* the process-wide default configuration
  contract,                    \* the contract the calls are made on
  defaultAtBuild,              \* the default when document(contract) omitted
                               \* the configuration, "explicit" otherwise
  calls                        \* the calls made, each given the previous result

(* ------------------------------------------------------------------ *)
(* JavaScript values (src/src/types.ts, Literal)                       *)
(* ------------------------------------------------------------------ *)

Undefined == [k |-> "undefined", u |-> "undefined"]
Null == [k |-> "null", u |-> "null"]
Bool(b) == [k |-> "boolean", b |-> b]
Num(n) == [k |-> "number", n |-> n]
Str(s) == [k |-> "string", s |-> s]
ArrRef(items, r) == [k |-> "array", a |-> items, ref |-> r]
ObjRef(entries, r) == [k |-> "object", o |-> entries, ref |-> r]
Arr(items) == ArrRef(items, 0)
Obj(entries) == ObjRef(entries, 0)
\* the exported function `object` of index.ts, as a value
ObjectFunction == [k |-> "function", f |-> "object"]

IsComposite(x) == x.k \in {"array", "object"}

\* typeof x
TypeOf(x) ==
  CASE x.k = "undefined" -> "undefined"
    [] x.k = "boolean" -> "boolean"
    [] x.k = "number" -> "number"
    [] x.k = "string" -> "string"
    [] x.k = "function" -> "function"
    [] OTHER -> "object"

\* x === y : primitives by value, arrays and objects by identity
StrictEquals(x, y) ==
  /\ x.k = y.k
  /\ IF IsComposite(x) THEN x.ref # 0 /\ x.ref = y.ref ELSE x = y

Digits == <<"0", "1", "2", "3", "4", "5", "6", "7", "8", "9">>
IsDigit(ch) == \E i \in 1..10 : Digits[i] = ch
DigitVal(ch) == (CHOOSE i \in 1..10 : Digits[i] = ch) - 1

CharAt(s, i) == SubSeq(s, i, i)

AllDigits(s) == \A i \in 1..Len(s) : IsDigit(CharAt(s, i))

RECURSIVE DigitsVal(_, _)
DigitsVal(s, acc) ==
  IF Len(s) = 0 THEN acc ELSE DigitsVal(Tail(s), 10 * acc + DigitVal(Head(s)))

\* an array index in canonical form: "0", "1", "12", never "01" or ""
IsArrayIndex(key) ==
  /\ Len(key) > 0
  /\ AllDigits(key)
  /\ (Len(key) = 1 \/ Head(key) # "0")

Keys(entries) == [i \in 1..Len(entries) |-> entries[i][1]]
HasKey(entries, key) == \E i \in 1..Len(entries) : entries[i][1] = key
Lookup(entries, key) ==
  entries[CHOOSE i \in 1..Len(entries) : entries[i][1] = key][2]

\* the members of a finite set of integers, ascending
Ascending(S) ==
  [i \in 1..Cardinality(S) |-> CHOOSE x \in S : Cardinality({y \in S : y < x}) = i - 1]

\* OrdinaryOwnPropertyKeys: integer keys ascending, then string keys in
\* insertion order (the keys of entries are distinct)
OwnPropertyOrder(entries) ==
  LET ints == {i \in 1..Len(entries) : IsArrayIndex(entries[i][1])}
      strs == Ascending((1..Len(entries)) \ ints)
      val(i) == DigitsVal(entries[i][1], 0)
      byValue == [r \in 1..Cardinality(ints) |->
                    CHOOSE i \in ints : Cardinality({j \in ints : val(j) < val(i)}) = r - 1]
  IN [r \in 1..Cardinality(ints) |-> entries[byValue[r]]]
       \o [r \in 1..Len(strs) |-> entries[strs[r]]]

\* CreateDataProperty for each pair in turn: a key keeps the place of its
\* first pair and the value of its last
DefineProperties(pairs) ==
  LET firsts == Ascending({i \in 1..Len(pairs) :
                             \A j \in 1..(i - 1) : pairs[j][1] # pairs[i][1]})
      last(key) == CHOOSE i \in 1..Len(pairs) :
                     /\ pairs[i][1] = key
                     /\ \A j \in (i + 1)..Len(pairs) : pairs[j][1] # key
  IN [r \in 1..Len(firsts) |->
        <<pairs[firsts[r]][1], pairs[last(pairs[firsts[r]][1])][2]>>]

RECURSIVE Concat(_, _, _)
\* parts[lo] \o ... \o parts[hi]
Concat(parts, lo, hi) ==
  IF lo > hi THEN ""
  ELSE IF lo = hi THEN parts[lo]
  ELSE LET mid == (lo + hi) \div 2 IN
       Concat(parts, lo, mid) \o Concat(parts, mid + 1, hi)

JoinWith(parts, sep) ==
  Concat([i \in 1..Len(parts) |-> IF i = 1 THEN parts[i] ELSE sep \o parts[i]],
         1, Len(parts))

RECURSIVE JsToString(_)
\* String(x), as ToPropertyKey and JSON.parse apply it to a non-string
JsToString(x) ==
  CASE x.k = "string" -> x.s
    [] x.k = "number" -> ToString(x.n)
    [] x.k = "boolean" -> (IF x.b THEN "true" ELSE "false")
    [] x.k = "array" ->
         JoinWith([i \in 1..Len(x.a) |->
                     IF x.a[i].k \in {"undefined", "null"} THEN ""
                     ELSE JsToString(x.a[i])], ",")
    [] x.k = "object" -> "[object Object]"
    [] x.k = "function" -> "function " \o x.f \o "() { [native code] }"
    [] OTHER -> x.u

\* Object.fromEntries(pairs): a new object; pairs are <<key value, value>>
FromEntries(pairs) ==
  Obj(OwnPropertyOrder(DefineProperties(
        [i \in 1..Len(pairs) |-> <<JsToString(pairs[i][1]), pairs[i][2]>>])))

\* an object literal { k1: v1, ... } written in this order
ObjectLiteral(entries) == OwnPropertyOrder(DefineProperties(entries))

Chars(s) == [i \in 1..Len(s) |-> SubSeq(s, i, i)]

\* Object.entries(x) for a value that is neither null nor undefined
Entries(x) ==
  CASE x.k = "object" -> x.o
    [] x.k = "array" -> [i \in 1..Len(x.a) |-> <<ToString(i - 1), x.a[i]>>]
    [] x.k = "string" ->
         LET cs == Chars(x.s) IN [i \in 1..Len(cs) |-> <<ToString(i - 1), Str(cs[i])>>]
    [] OTHER -> <<>>

\* the methods every value that is neither null nor undefined inherits
\* from Object.prototype
ObjectPrototypeKeys ==
  {"constructor", "hasOwnProperty", "isPrototypeOf", "propertyIsEnumerable",
   "toLocaleString", "toString", "valueOf"}
Inherited(key) == [k |-> "function", f |-> IF key = "constructor" THEN "Object" ELSE key]

\* key in x, for an object x: own or inherited
In(key, x) == HasKey(x.o, key) \/ key \in ObjectPrototypeKeys

\* x[key] for a value that is neither null nor undefined
Get(x, key) ==
  LET es == Entries(x) IN
  IF HasKey(es, key) THEN Lookup(es, key)
  ELSE IF key = "length" /\ x.k = "array" THEN Num(Len(x.a))
  ELSE IF key = "length" /\ x.k = "string" THEN Num(Len(x.s))
  ELSE IF key \in ObjectPrototypeKeys THEN Inherited(key)
  ELSE Undefined

RECURSIVE Canon(_)
\* the value up to identity and key order: what toStrictEqual compares
Canon(x) ==
  CASE x.k = "array" -> [k |-> "array", a |-> [i \in 1..Len(x.a) |-> Canon(x.a[i])]]
    [] x.k = "object" ->
         [k |-> "object",
          o |-> {<<x.o[i][1], Canon(x.o[i][2])>> : i \in 1..Len(x.o)}]
    [] OTHER -> x

DeepEquals(x, y) == Canon(x) = Canon(y)

(* ------------------------------------------------------------------ *)
(* The JSON codec of the presets (src/src/serialization.ts)            *)
(* ------------------------------------------------------------------ *)

EscapeChar(ch) ==
  CASE ch = "\"" -> "\\\""
    [] ch = "\\" -> "\\\\"
    [] ch = "\n" -> "\\n"
    [] OTHER -> ch

Escape(s) == Concat([i \in 1..Len(s) |-> EscapeChar(CharAt(s, i))], 1, Len(s))

Quote(s) == "\"" \o Escape(s) \o "\""

NotSerialized(x) == x.k \in {"undefined", "function"}

RECURSIVE SerializeJSONProperty(_, _, _)
\* the text of a value that is neither undefined nor a function
SerializeJSONProperty(x, indent, gap) ==
  LET inner == indent \o gap
      wrap(open, parts, close) ==
        IF Len(parts) = 0 THEN open \o close
        ELSE IF gap = "" THEN open \o JoinWith(parts, ",") \o close
        ELSE open \o "\n" \o inner \o JoinWith(parts, ",\n" \o inner)
                  \o "\n" \o indent \o close
  IN
  CASE x.k = "null" -> "null"
    [] x.k = "boolean" -> (IF x.b THEN "true" ELSE "false")
    [] x.k = "number" -> ToString(x.n)
    [] x.k = "string" -> Quote(x.s)
    [] x.k = "array" ->
         wrap("[", [i \in 1..Len(x.a) |->
                      IF NotSerialized(x.a[i]) THEN "null"
                      ELSE SerializeJSONProperty(x.a[i], inner, gap)], "]")
    [] x.k = "object" ->
         LET kept == SelectSeq(x.o, LAMBDA e : ~NotSerialized(e[2])) IN
         wrap("{", [i \in 1..Len(kept) |->
                      Quote(kept[i][1]) \o (IF gap = "" THEN ":" ELSE ": ")
                        \o SerializeJSONProperty(kept[i][2], inner, gap)], "}")

\* JSON.stringify(x, null, gap): a string, or undefined
JSONstringify(x, gap) ==
  IF NotSerialized(x) THEN Undefined ELSE Str(SerializeJSONProperty(x, "", gap))

IsWs(ch) == ch \in {" ", "\n", "\t", "\r"}

RECURSIVE SkipWs(_)
SkipWs(t) == IF Len(t) > 0 /\ IsWs(Head(t)) THEN SkipWs(Tail(t)) ELSE t

StartsWith(t, p) == Len(t) >= Len(p) /\ SubSeq(t, 1, Len(p)) = p
Drop(t, n) == SubSeq(t, n + 1, Len(t))

PFail == [ok |-> FALSE, val |-> Undefined, rest |-> ""]
POk(x, r) == [ok |-> TRUE, val |-> x, rest |-> r]

RECURSIVE DigitRun(_)
DigitRun(t) ==
  IF Len(t) > 0 /\ IsDigit(Head(t)) THEN Head(t) \o DigitRun(Tail(t)) ELSE ""

\* an integer literal: 0 or a run of digits without a leading zero
ParseNumber(t, sign) ==
  LET run == DigitRun(t) IN
  IF IsArrayIndex(run) THEN POk(Num(sign * DigitsVal(run, 0)), Drop(t, Len(run)))
  ELSE PFail

RECURSIVE BackslashesBefore(_, _)
\* the length of the run of backslashes that ends just before position i
BackslashesBefore(t, i) ==
  IF i > 1 /\ CharAt(t, i - 1) = "\\" THEN 1 + BackslashesBefore(t, i - 1) ELSE 0

\* the text after an opening quote: the string up to the closing quote
ParseStringBody(t) ==
  LET closing == {i \in 1..Len(t) :
                    CharAt(t, i) = "\"" /\ BackslashesBefore(t, i) % 2 = 0}
      end == CHOOSE i \in closing : \A j \in closing : i <= j
      escaped(i) == BackslashesBefore(t, i) % 2 = 1
      piece(i) ==
        LET ch == CharAt(t, i) IN
        IF escaped(i) THEN (IF ch = "n" THEN "\n" ELSE ch)
        ELSE IF ch = "\\" THEN "" ELSE ch
  IN IF closing = {} THEN PFail
     ELSE IF \E i \in 1..(end - 1) :
               \/ escaped(i) /\ CharAt(t, i) \notin {"\"", "\\", "/", "n"}
               \/ ~escaped(i) /\ CharAt(t, i) = "\n"
          THEN PFail
     ELSE POk(Str(Concat([i \in 1..(end - 1) |-> piece(i)], 1, end - 1)),
              Drop(t, end))

RECURSIVE ParseValue(_)
RECURSIVE ParseElements(_, _)
RECURSIVE ParseMembers(_, _)

ParseElements(t, acc) ==
  LET r == ParseValue(t)
      u == SkipWs(r.rest)
  IN IF ~r.ok THEN PFail
     ELSE IF StartsWith(u, ",") THEN ParseElements(Tail(u), Append(acc, r.val))
     ELSE IF StartsWith(u, "]") THEN POk(Arr(Append(acc, r.val)), Tail(u))
     ELSE PFail

ParseMembers(t, acc) ==
  LET u == SkipWs(t) IN
  IF ~StartsWith(u, "\"") THEN PFail
  ELSE
    LET key == ParseStringBody(Tail(u))
        c == SkipWs(key.rest)
    IN IF ~key.ok \/ ~StartsWith(c, ":") THEN PFail
       ELSE
         LET r == ParseValue(Tail(c))
             w == SkipWs(r.rest)
             acc2 == Append(acc, <<key.val.s, r.val>>)
         IN IF ~r.ok THEN PFail
            ELSE IF StartsWith(w, ",") THEN ParseMembers(Tail(w), acc2)
            ELSE IF StartsWith(w, "}")
                 THEN POk(Obj(OwnPropertyOrder(DefineProperties(acc2))), Tail(w))
            ELSE PFail

ParseValue(t0) ==
  LET t == SkipWs(t0) IN
  IF Len(t) = 0 THEN PFail
  ELSE IF StartsWith(t, "null") THEN POk(Null, Drop(t, 4))
  ELSE IF StartsWith(t, "true") THEN POk(Bool(TRUE), Drop(t, 4))
  ELSE IF StartsWith(t, "false") THEN POk(Bool(FALSE), Drop(t, 5))
  ELSE IF Head(t) = "\"" THEN ParseStringBody(Tail(t))
  ELSE IF Head(t) = "-" THEN ParseNumber(Tail(t), -1)
  ELSE IF IsDigit(Head(t)) THEN ParseNumber(t, 1)
  ELSE IF Head(t) = "[" THEN
    (IF StartsWith(SkipWs(Tail(t)), "]")
     THEN POk(Arr(<<>>), Tail(SkipWs(Tail(t))))
     ELSE ParseElements(Tail(t), <<>>))
  ELSE IF Head(t) = "{" THEN
    (IF StartsWith(SkipWs(Tail(t)), "}")
     THEN POk(Obj(<<>>), Tail(SkipWs(Tail(t))))
     ELSE ParseMembers(Tail(t), <<>>))
  ELSE PFail

\* JSON.parse(x): x is converted to a string first; ok = FALSE is a SyntaxError
JSONparse(x) ==
  LET r == ParseValue(JsToString(x)) IN
  IF r.ok /\ Len(SkipWs(r.rest)) = 0 THEN [ok |-> TRUE, val |-> r.val]
  ELSE [ok |-> FALSE, val |-> Undefined]


(* ------------------------------------------------------------------ *)
(* Path stack and failure signal (src/src/errors.ts)                   *)
(* ------------------------------------------------------------------ *)

\* what a call returns: a value, or a thrown error.  evaluated lists, in
\* call order, <<i, matched>> for every union discriminator i the call
\* evaluated (matched: it returned a contract).
Return(x) ==
  [ok |-> TRUE, value |-> x, error |-> "none", message |-> "",
   location |-> "", offender |-> Undefined, evaluated |-> <<>>]

\* new TransformationError(message, customStack, offender), thrown
TransformationError(message, customStack, offender) ==
  [ok |-> FALSE, value |-> Undefined, error |-> "TransformationError",
   message |-> message,
   location |-> JoinWith(customStack, " -> ") \o "(!!)",
   offender |-> offender, evaluated |-> <<>>]

\* an error of the JavaScript runtime (TypeError, SyntaxError), thrown
Throw(kind) ==
  [ok |-> FALSE, value |-> Undefined, error |-> kind, message |-> "",
   location |-> "", offender |-> Undefined, evaluated |-> <<>>]

WithLog(out, log) == [out EXCEPT !.evaluated = log \o @]

\* stack(): the empty stack
stack == <<>>

\* s.with(message): a new stack, existing.concat(message)
With(s, message) == Append(s, message)

\* a with() that pushes onto the array of the stack it is called on
StackAfterWithPush(s, message) == Append(s, message)

\* the stack s that the caller still holds after s.with(message)
StackAfterWith(s, message) == s

(* ------------------------------------------------------------------ *)
(* Contracts (src/src/index.ts), as data                               *)
(* ------------------------------------------------------------------ *)

any == [t |-> "any"]

validated(validator, reason) ==
  [t |-> "validated", validator |-> validator, reason |-> reason]

stackwrap(upstream, thisMessage) ==
  [t |-> "stackwrap", upstream |-> upstream, thisMessage |-> thisMessage]

optional(schema) ==
  [t |-> "optional", schema |-> schema, attributes |-> [optional |-> TRUE]]

TypeCheck(kind) == [p |-> "typeof", kind |-> kind]
Expected(kind) == [r |-> "expected", kind |-> kind]
DefaultReason == [r |-> "default"]

literal(value) ==
  stackwrap(validated([p |-> "equals", value |-> value], DefaultReason), "literal")

string == stackwrap(validated(TypeCheck("string"), Expected("string")), "string")
number == stackwrap(validated(TypeCheck("number"), Expected("number")), "number")
boolean == stackwrap(validated(TypeCheck("boolean"), Expected("boolean")), "boolean")
nil == stackwrap(validated([p |-> "null"], Expected("null")), "nil")

record(keySchema, valueSchema) ==
  [t |-> "record", keySchema |-> keySchema, valueSchema |-> valueSchema]

array(itemSchema) == [t |-> "array", itemSchema |-> itemSchema]

\* object({k1: c1, ...}): declared keeps the keys as written, schemaObject
\* is the schema object as Object.keys / Object.entries enumerate it
object(declared) ==
  [t |-> "object", declared |-> declared,
   schemaObject |-> OwnPropertyOrder(declared)]

union(discriminators) == [t |-> "union", discriminators |-> discriminators]

JsonPrettySerializationConfig == "JsonPrettySerializationConfig"
JsonSerializationConfig == "JsonSerializationConfig"
Configs == {JsonPrettySerializationConfig, JsonSerializationConfig}

document(schema, config) ==
  [t |-> "document", schema |-> schema, config |-> config]

\* the discriminators of the tests: v => v.key === value && bound,
\* v => typeof v === kind && bound, and () => bound
FieldIs(key, value, bound) ==
  [d |-> "field", key |-> key, value |-> value, bound |-> bound]
TypeIs(kind, bound) == [d |-> "typeof", kind |-> kind, bound |-> bound]
Always(bound) == [d |-> "always", bound |-> bound]

\* discriminator(value): false, a contract, or a TypeError of v.key on
\* null / undefined
Discriminate(d, x) ==
  CASE d.d = "field" ->
         [threw |-> x.k \in {"null", "undefined"},
          matched |-> x.k \notin {"null", "undefined"}
                        /\ StrictEquals(Get(x, d.key), d.value)]
    [] d.d = "typeof" -> [threw |-> FALSE, matched |-> TypeOf(x) = d.kind]
    [] OTHER -> [threw |-> FALSE, matched |-> TRUE]

\* validator(v)
Validates(validator, x) ==
  CASE validator.p = "typeof" -> TypeOf(x) = validator.kind
    [] validator.p = "null" -> x.k = "null"
    [] OTHER -> StrictEquals(x, validator.value)

\* reason(v)
Reason(reason, x) ==
  IF reason.r = "expected"
  THEN "expected '" \o reason.kind \o "', received '" \o TypeOf(x) \o "'"
  ELSE "Failed validation"

\* schemaObject[key]?.attributes?.optional === true
IsOptional(c) == c.t = "optional" /\ c.attributes.optional = TRUE

\* a document that hands on the literal without serializing it
SerializerSkipped(config, lit) == lit

\* the serializer / deserializer of a configuration
Serializer(config, lit) ==
  IF config = JsonPrettySerializationConfig
  THEN JSONstringify(lit, "  ") ELSE JSONstringify(lit, "")
Deserializer(config, text) == JSONparse(text)


(* ------------------------------------------------------------------ *)
(* transform and restore of every combinator (src/src/index.ts)        *)
(* ------------------------------------------------------------------ *)

RECURSIVE Call(_, _, _, _)
RECURSIVE MapRange(_, _, _, _, _, _)
RECURSIVE UnionLoop(_, _, _, _, _, _)

\* c.transform(x, s) and c.restore(json, s)
transform(c, x, s) == Call("transform", c, x, s)
restore(c, json, s) == Call("restore", c, json, s)

\* What a run of calls made by one map() callback after another leaves:
\* the values returned (or the error thrown by the first call that threw,
\* after which no call is made), the discriminators evaluated, and the stack
\* the caller holds afterwards.
Mapped(vals, log, s) ==
  [ok |-> TRUE, vals |-> vals, thrown |-> Return(Undefined), log |-> log, after |-> s]
Aborted(thrown, log, s) ==
  [ok |-> FALSE, vals |-> <<>>, thrown |-> thrown, log |-> log, after |-> s]

\* one call schema.<dir>(x, s.with(tag)) of a callback
OneCall(dir, schema, x, s, tag) ==
  LET r == Call(dir, schema, x, With(s, tag)) IN
  IF r.ok THEN Mapped(<<r.value>>, r.evaluated, StackAfterWith(s, tag))
  ELSE Aborted(r, r.evaluated, StackAfterWith(s, tag))

\* first, and then if first returned
Then(first, second(_)) ==
  IF ~first.ok THEN first
  ELSE LET rest == second(first.after) IN
       IF rest.ok THEN Mapped(first.vals \o rest.vals, first.log \o rest.log, rest.after)
       ELSE Aborted(rest.thrown, first.log \o rest.log, rest.after)

\* (e, i) => itemSchema.<dir>(e, s.with(`array:<dir>[i]`))
ArrayCallback(dir, c, items, i, s) ==
  OneCall(dir, c.itemSchema, items[i], s,
          "array:" \o dir \o "[" \o ToString(i - 1) \o "]")

\* ([key, value]) => [keySchema.<dir>(key, s.with(`record:<dir>['key of
\* key']`)), valueSchema.<dir>(value, s.with(`record:<dir>[value of 'key']`))]
RecordCallback(dir, c, entries, i, s) ==
  LET key == entries[i][1] IN
  Then(OneCall(dir, c.keySchema, Str(key), s,
               "record:" \o dir \o "['key of " \o key \o "']"),
       LAMBDA s1 : OneCall(dir, c.valueSchema, entries[i][2], s1,
                           "record:" \o dir \o "[value of '" \o key \o "']"))

\* ([key, value]) => [key, value.<dir>(x[key], s.with(`object:<dir>['key']`))]
\* x[key] of null or undefined is a TypeError
ObjectCallback(dir, c, x, i, s) ==
  LET key == c.schemaObject[i][1] IN
  IF x.k \in {"null", "undefined"} THEN Aborted(Throw("TypeError"), <<>>, s)
  ELSE LET r == OneCall(dir, c.schemaObject[i][2], Get(x, key), s,
                        "object:" \o dir \o "['" \o key \o "']")
       IN IF r.ok THEN Mapped(<<Str(key)>> \o r.vals, r.log, r.after) ELSE r

\* the callback of combinator c on element i of xs
Callback(dir, c, xs, i, s) ==
  CASE c.t = "array" -> ArrayCallback(dir, c, xs, i, s)
    [] c.t = "record" -> RecordCallback(dir, c, xs, i, s)
    [] c.t = "object" -> ObjectCallback(dir, c, xs, i, s)

\* Array.prototype.map: the callback on elements lo..hi in order
MapRange(dir, c, xs, lo, hi, s) ==
  IF lo > hi THEN Mapped(<<>>, <<>>, s)
  ELSE IF lo = hi THEN Callback(dir, c, xs, lo, s)
  ELSE LET mid == (lo + hi) \div 2 IN
       Then(MapRange(dir, c, xs, lo, mid, s),
            LAMBDA s1 : MapRange(dir, c, xs, mid + 1, hi, s1))

\* a callback that returns [value, key]
PairsSwapped(vals) ==
  [i \in 1..(Len(vals) \div 2) |-> <<vals[2 * i], vals[2 * i - 1]>>]

Pairs(vals) == [i \in 1..(Len(vals) \div 2) |-> <<vals[2 * i - 1], vals[2 * i]>>]

\* the array the map returns, or the error it throws
MapArray(dir, c, items, s) ==
  LET m == MapRange(dir, c, items, 1, Len(items), s) IN
  IF m.ok THEN WithLog(Return(Arr(m.vals)), m.log)
  ELSE [m.thrown EXCEPT !.evaluated = m.log]

\* Object.fromEntries(Object.entries(x).map(...)) of record
MapRecord(dir, c, entries, s) ==
  LET m == MapRange(dir, c, entries, 1, Len(entries), s) IN
  IF m.ok THEN WithLog(Return(FromEntries(Pairs(m.vals))), m.log)
  ELSE [m.thrown EXCEPT !.evaluated = m.log]

\* Object.fromEntries(Object.entries(schemaObject).map(...)) of object
MapObject(dir, c, x, s) ==
  LET m == MapRange(dir, c, x, 1, Len(c.schemaObject), s) IN
  IF m.ok THEN WithLog(Return(FromEntries(Pairs(m.vals))), m.log)
  ELSE [m.thrown EXCEPT !.evaluated = m.log]

\* for (let i = 0; i < discriminators.length; i++) ... ; throw
UnionLoop(dir, discriminators, i, x, s, log) ==
  IF i > Len(discriminators)
  THEN WithLog(TransformationError("No matching union discriminator",
                                   With(s, "union:" \o dir), Undefined), log)
  ELSE
    LET discriminated == Discriminate(discriminators[i], x)
        log2 == Append(log, <<i - 1, discriminated.matched>>)
    IN IF discriminated.threw THEN WithLog(Throw("TypeError"), log2)
       ELSE IF ~discriminated.matched
            THEN UnionLoop(dir, discriminators, i + 1, x, s, log2)
       ELSE WithLog(Call(dir, discriminators[i].bound, x,
                         With(s, "union:" \o dir \o "[" \o ToString(i - 1) \o "]")),
                    log2)

any_transform(c, x, s) == Return(x)
any_restore(c, json, s) == Return(json)

validated_transform(c, x, s) ==
  IF ~Validates(c.validator, x)
  THEN TransformationError(Reason(c.reason, x), s, x)
  ELSE Return(x)

\* restore names `object`, which in its scope is the exported function
\* object(), not the value being restored
validated_restore(c, json, s) ==
  IF ~Validates(c.validator, json)
  THEN TransformationError(Reason(c.reason, ObjectFunction), s, ObjectFunction)
  ELSE Return(json)

optional_transform(c, x, s) ==
  IF x.k = "undefined" THEN Return(Undefined) ELSE transform(c.schema, x, s)
optional_restore(c, json, s) ==
  IF json.k = "undefined" THEN Return(Undefined) ELSE restore(c.schema, json, s)

stackwrap_transform(c, x, s) == transform(c.upstream, x, With(s, c.thisMessage))
stackwrap_restore(c, json, s) == restore(c.upstream, json, With(s, c.thisMessage))

record_transform(c, x, s) ==
  IF x.k \in {"null", "undefined"} THEN Throw("TypeError")
  ELSE MapRecord("transform", c, Entries(x), s)
record_restore(c, json, s) ==
  IF json.k \in {"null", "undefined"} THEN Throw("TypeError")
  ELSE MapRecord("restore", c, Entries(json), s)

array_transform(c, x, s) ==
  IF x.k # "array" THEN Throw("TypeError")
  ELSE MapArray("transform", c, x.a, s)
array_restore(c, json, s) ==
  IF json.k # "array"
  THEN TransformationError("Not an array", With(s, "array:restore"), Undefined)
  ELSE MapArray("restore", c, json.a, s)

\* a transform that spreads the input under the transformed keys
object_transform_spread(c, x, s) ==
  LET mapped == MapObject("transform", c, x, s) IN
  IF mapped.ok /\ x.k = "object"
  THEN [mapped EXCEPT !.value = Obj(ObjectLiteral(x.o \o mapped.value.o))]
  ELSE mapped

object_transform(c, x, s) ==
  MapObject("transform", c, x, s)

\* the first key of Object.keys(schemaObject) that is not in json and not
\* optional; 0 when there is none
FirstMissing(schemaObject, json) ==
  LET missing == {i \in 1..Len(schemaObject) :
                    /\ ~In(schemaObject[i][1], json)
                    /\ ~IsOptional(schemaObject[i][2])}
  IN IF missing = {} THEN 0 ELSE CHOOSE i \in missing : \A j \in missing : i <= j

object_restore(c, json, s) ==
  IF json.k # "object"
  THEN TransformationError(
         "Not an object. Expected 'object', got '"
           \o (IF json.k = "array" THEN "array" ELSE TypeOf(json)) \o "'",
         With(s, "object:transform"), Undefined)
  ELSE IF FirstMissing(c.schemaObject, json) # 0
  THEN TransformationError(
         "Missing required object key '"
           \o c.schemaObject[FirstMissing(c.schemaObject, json)][1] \o "'",
         With(s, "object:transform"), Undefined)
  ELSE MapObject("restore", c, json, s)

union_transform(c, x, s) == UnionLoop("transform", c.discriminators, 1, x, s, <<>>)

\* a loop that does not stop at the first match: the last match is used
union_restore_last_match(c, json, s) ==
  LET ds == c.discriminators
      matches == {i \in 1..Len(ds) : Discriminate(ds[i], json).matched}
      last == CHOOSE i \in matches : \A j \in matches : j <= i
  IN IF matches = {} \/ json.k \in {"null", "undefined"}
     THEN UnionLoop("restore", ds, 1, json, s, <<>>)
     ELSE WithLog(restore(ds[last].bound, json,
                          With(s, "union:restore[" \o ToString(last - 1) \o "]")),
                  [j \in 1..last |-> <<j - 1, Discriminate(ds[j], json).matched>>])

union_restore(c, json, s) == UnionLoop("restore", c.discriminators, 1, json, s, <<>>)

\* a document that reads the default when it is used
DocumentConfigLate(c) == DefaultSerializationConfig

\* the { serializer, deserializer } a document contract closes over
DocumentConfig(c) == c.config

document_transform(c, x, s) ==
  LET lit == transform(c.schema, x, With(s, "document:transform")) IN
  IF ~lit.ok THEN lit
  ELSE WithLog(Return(Serializer(DocumentConfig(c), lit.value)), lit.evaluated)

document_restore(c, str, s) ==
  LET lit == Deserializer(DocumentConfig(c), str) IN
  IF ~lit.ok THEN Throw("SyntaxError")
  ELSE restore(c.schema, lit.val, With(s, "document:restore"))

\* the method of contract c for direction dir
Call(dir, c, x, s) ==
  IF dir = "transform"
  THEN CASE c.t = "any" -> any_transform(c, x, s)
         [] c.t = "validated" -> validated_transform(c, x, s)
         [] c.t = "optional" -> optional_transform(c, x, s)
         [] c.t = "stackwrap" -> stackwrap_transform(c, x, s)
         [] c.t = "record" -> record_transform(c, x, s)
         [] c.t = "array" -> array_transform(c, x, s)
         [] c.t = "object" -> object_transform(c, x, s)
         [] c.t = "union" -> union_transform(c, x, s)
         [] c.t = "document" -> document_transform(c, x, s)
  ELSE CASE c.t = "any" -> any_restore(c, x, s)
         [] c.t = "validated" -> validated_restore(c, x, s)
         [] c.t = "optional" -> optional_restore(c, x, s)
         [] c.t = "stackwrap" -> stackwrap_restore(c, x, s)
         [] c.t = "record" -> record_restore(c, x, s)
         [] c.t = "array" -> array_restore(c, x, s)
         [] c.t = "object" -> object_restore(c, x, s)
         [] c.t = "union" -> union_restore(c, x, s)
         [] c.t = "document" -> document_restore(c, x, s)


(* ------------------------------------------------------------------ *)
(* The contracts and the values the calls are made with                *)
(* ------------------------------------------------------------------ *)

\* longest array among the generated arguments
MaxLen == 2
\* longest chain of calls in which each call is given the previous result
MaxCalls == 3

\* an object that exists before any call: the constant given to literal()
ConstObject == ObjRef(<<<<"abc", Num(123)>>>>, 1)

howdySchema == object(<<<<"howdy", string>>>>)
optionalsSchema == object(<<<<"howdy", string>>, <<"pardner", optional(string)>>>>)
oneSchema == object(<<<<"a", number>>, <<"one", string>>>>)
twoSchema == object(<<<<"a", number>>, <<"two", string>>>>)
testUnion == union(<<FieldIs("a", Num(1), oneSchema), FieldIs("a", Num(2), twoSchema)>>)
componentSchema(config) ==
  object(<<<<"Type", literal(Str("One"))>>, <<"Config", document(howdySchema, config)>>>>)

\* contracts without an embedded document
PlainSchemas ==
  { string, number, boolean, nil, any,
    literal(Str("One")), literal(Num(1)), literal(ConstObject),
    optional(string),
    array(number), array(optional(string)), array(array(number)),
    record(string, number), record(literal(Str("a")), any),
    record(string, array(number)),
    object(<<>>),
    object(<<<<"abc", number>>>>),
    object(<<<<"a", string>>, <<"b", optional(string)>>>>),
    object(<<<<"b", string>>, <<"a", string>>>>),
    object(<<<<"b", string>>, <<"1", number>>>>),
    object(<<<<"k", array(number)>>, <<"a", string>>>>),
    object(<<<<"a", string>>, <<"k", array(number)>>>>),
    object(<<<<"abc", literal(ConstObject)>>>>),
    object(<<<<"toString", string>>, <<"a", string>>>>),
    testUnion,
    union(<<>>),
    union(<<TypeIs("string", string), TypeIs("number", number)>>),
    union(<<Always(oneSchema), Always(twoSchema)>>),
    union(<<FieldIs("a", Num(2), twoSchema), Always(oneSchema), Always(any)>>),
    union(<<FieldIs("a", Num(1), object(<<<<"one", string>>>>))>>),
    array(testUnion),
    record(string, testUnion) }

\* what the document contracts of the model wrap
DocumentInner ==
  { howdySchema, optionalsSchema, any, array(number), literal(ConstObject),
    record(string, testUnion), object(<<<<"b", string>>, <<"1", number>>>>) }

\* contracts with a document built with an explicit configuration
DocumentSchemas ==
  { document(c, config) : c \in DocumentInner, config \in Configs }
    \cup { componentSchema(config) : config \in Configs }
    \cup { union(<<TypeIs("string", document(howdySchema, JsonSerializationConfig))>>),
           record(document(any, JsonSerializationConfig), number) }

Schemas == PlainSchemas \cup DocumentSchemas

RECURSIVE SeqsUpTo(_, _)
\* the sequences over S of length at most n
SeqsUpTo(S, n) ==
  IF n = 0 THEN {<<>>}
  ELSE LET shorter == SeqsUpTo(S, n - 1) IN
       shorter \cup {Append(q, e) : q \in shorter, e \in S}

Primitives == {Undefined, Null, Bool(TRUE), Num(1), Num(2), Str("x"), Str("One")}

Arrays ==
  {Arr(q) : q \in SeqsUpTo({Num(1), Str("x"), Undefined}, MaxLen)}
    \cup {Arr(<<Arr(<<Num(1)>>), Arr(<<>>)>>), Arr(<<Arr(<<Str("x")>>)>>)}

Objects ==
  { Obj(<<>>), ConstObject,
    Obj(<<<<"abc", Num(123)>>>>),
    Obj(<<<<"abc", Num(123)>>, <<"extra", Num(1)>>>>),
    Obj(<<<<"abc", Obj(<<<<"abc", Num(123)>>>>)>>>>),
    Obj(<<<<"abc", ConstObject>>>>),
    Obj(<<<<"a", Str("x")>>>>),
    Obj(<<<<"a", Str("x")>>, <<"b", Str("y")>>>>),
    Obj(<<<<"a", Str("x")>>, <<"b", Undefined>>>>),
    Obj(<<<<"a", Num(1)>>, <<"b", Str("y")>>>>),
    Obj(<<<<"b", Str("y")>>>>),
    Obj(<<<<"1", Num(1)>>, <<"b", Str("y")>>>>),
    Obj(<<<<"1", Str("x")>>>>),
    Obj(<<<<"1", Num(2)>>, <<"b", Str("y")>>, <<"extra", Num(1)>>>>),
    Obj(<<<<"a", Num(1)>>, <<"one", Str("howdy")>>>>),
    Obj(<<<<"a", Num(2)>>, <<"two", Str("pardner")>>>>),
    Obj(<<<<"a", Num(1)>>, <<"one", Str("howdy")>>, <<"two", Str("pardner")>>>>),
    Obj(<<<<"a", Num(2)>>, <<"one", Num(1)>>, <<"two", Str("pardner")>>>>),
    Obj(<<<<"one", Str("howdy")>>>>),
    Obj(<<<<"k", Arr(<<Num(1), Num(2)>>)>>, <<"a", Str("x")>>>>),
    Obj(<<<<"k", Arr(<<Num(1), Str("x")>>)>>, <<"a", Str("x")>>>>),
    Obj(<<<<"k", Arr(<<Num(1), Str("x")>>)>>, <<"a", Num(1)>>>>),
    Obj(<<<<"k", Arr(<<Num(1)>>)>>>>),
    Obj(<<<<"x", Num(1)>>, <<"y", Num(2)>>>>),
    Obj(<<<<"x", Arr(<<Num(1)>>)>>, <<"y", Arr(<<Str("x")>>)>>>>),
    Obj(<<<<"x", Obj(<<<<"a", Num(1)>>, <<"one", Str("howdy")>>>>)>>,
          <<"y", Obj(<<<<"a", Num(2)>>, <<"two", Str("pardner")>>>>)>>>>),
    Obj(<<<<"howdy", Str("pardner")>>>>),
    Obj(<<<<"howdy", Str("say \"hi\"")>>, <<"pardner", Str("howdy")>>>>),
    Obj(<<<<"howdy", Num(1)>>>>) }

\* the values the presets encode into the texts given to restore
Encodable == (Primitives \ {Undefined}) \cup Objects
               \cup {Arr(<<>>), Arr(<<Num(1), Num(1)>>), Arr(<<Num(1), Str("x")>>)}

\* the indentation of the compact and of the pretty preset
Gaps == {"", "  "}

Texts ==
  {JSONstringify(x, gap) : gap \in Gaps, x \in Encodable}
    \cup {Str(""), Str("{"), Str("[1,]"), Str("\"{\\\"howdy\\\":\\\"pardner\\\"}\"")}

Components ==
  {Obj(<<<<"Type", Str(ty)>>, <<"Config", text>>>>) :
     ty \in {"One", "Two"},
     text \in {JSONstringify(x, gap) : gap \in Gaps,
                 x \in {Obj(<<<<"howdy", Str("pardner")>>>>), Obj(<<>>)}}
              \cup {Str("{")}}
    \cup {Obj(<<<<"Type", Str("One")>>, <<"Config", Obj(<<<<"howdy", Str("pardner")>>>>)>>>>),
          Obj(<<<<"Type", Str("One")>>>>)}

Values == Primitives \cup Arrays \cup Objects \cup Texts \cup Components

(* ------------------------------------------------------------------ *)
(* The program as a state machine                                      *)
(* ------------------------------------------------------------------ *)

vars == <<DefaultSerializationConfig, contract, defaultAtBuild, calls>>

Init ==
  /\ DefaultSerializationConfig = JsonPrettySerializationConfig
  /\ contract \in Schemas
  /\ defaultAtBuild = "explicit"
  /\ calls = <<>>

\* SetDefaultSerializationConfig(config)
SetDefaultSerializationConfig(config) ==
  /\ DefaultSerializationConfig' = config
  /\ UNCHANGED <<contract, defaultAtBuild, calls>>

\* document(schema) without a configuration: the default parameter value
\* is read, and destructured, when document() is called
DocumentWithDefault(schema) ==
  /\ contract' = document(schema, DefaultSerializationConfig)
  /\ defaultAtBuild' = DefaultSerializationConfig
  /\ calls' = <<>>
  /\ UNCHANGED DefaultSerializationConfig

\* contract.restore(json)
Restore(json) ==
  /\ calls = <<>>
  /\ calls' = <<[op |-> "restore", arg |-> json, out |-> restore(contract, json, stack)]>>
  /\ UNCHANGED <<DefaultSerializationConfig, contract, defaultAtBuild>>

\* contract.transform(x)
Transform(x) ==
  /\ calls = <<>>
  /\ calls' = <<[op |-> "transform", arg |-> x, out |-> transform(contract, x, stack)]>>
  /\ UNCHANGED <<DefaultSerializationConfig, contract, defaultAtBuild>>

Last == calls[Len(calls)]
CanChain == Len(calls) \in 1..(MaxCalls - 1) /\ Last.out.ok

\* contract.restore(previous result)
RestoreResult ==
  /\ CanChain
  /\ calls' = Append(calls, [op |-> "restore", arg |-> Last.out.value,
                             out |-> restore(contract, Last.out.value, stack)])
  /\ UNCHANGED <<DefaultSerializationConfig, contract, defaultAtBuild>>

\* contract.transform(previous result)
TransformResult ==
  /\ CanChain
  /\ calls' = Append(calls, [op |-> "transform", arg |-> Last.out.value,
                             out |-> transform(contract, Last.out.value, stack)])
  /\ UNCHANGED <<DefaultSerializationConfig, contract, defaultAtBuild>>

Next ==
  \/ \E config \in Configs : SetDefaultSerializationConfig(config)
  \/ \E schema \in DocumentInner : DocumentWithDefault(schema)
  \/ \E json \in Values : Restore(json)
  \/ \E x \in Values : Transform(x)
  \/ RestoreResult
  \/ TransformResult

Spec == Init /\ [][Next]_vars

(* ------------------------------------------------------------------ *)
(* Round trips                                                         *)
(* ------------------------------------------------------------------ *)

IsPrefix(p, q) == Len(p) <= Len(q) /\ SubSeq(q, 1, Len(p)) = p

\* two calls whose union discriminators answered alike, as far as both went
SameSelection(p, q) == IsPrefix(p, q) \/ IsPrefix(q, p)

\* restore(L) returned V and transform(V) was called
RestoredThenTransformed ==
  /\ Len(calls) >= 2
  /\ calls[1].op = "restore" /\ calls[1].out.ok
  /\ calls[2].op = "transform"

\* ... and restore(transform(V)) was called
RestoredAgain == Len(calls) >= 3 /\ calls[3].op = "restore"

\* C1 as claimed: for every contract and every literal L for which
\* restore(L) returns V, transform(V) returns and restore(transform(V))
\* equals V.
C1_RestoreRoundTrip ==
  RestoredThenTransformed =>
    /\ calls[2].out.ok
    /\ RestoredAgain =>
         /\ calls[3].out.ok
         /\ DeepEquals(calls[3].out.value, calls[1].out.value)

\* C1 amended: for every contract and every literal L for which restore(L)
\* returns V, transform(V) returns whenever its union discriminators answer
\* on V as those of restore(L) answered on L, and restore(transform(V))
\* equals V whenever its discriminators answer so too; for a document
\* contract also when the text L was written by the other preset.
C1_RestoreRoundTripSameVariants ==
  RestoredThenTransformed =>
    /\ SameSelection(calls[1].out.evaluated, calls[2].out.evaluated)
         => calls[2].out.ok
    /\ (RestoredAgain
          /\ SameSelection(calls[1].out.evaluated, calls[3].out.evaluated)) =>
         /\ calls[3].out.ok
         /\ DeepEquals(calls[3].out.value, calls[1].out.value)

\* a compact document of a record of unions restored a pretty text whose
\* two values took different variants, wrote it back compact and restored
\* that
C1_Witness ==
  /\ contract = document(record(string, testUnion), JsonSerializationConfig)
  /\ Len(calls) = 3
  /\ calls[1].op = "restore" /\ calls[2].op = "transform" /\ calls[3].op = "restore"
  /\ calls[1].arg = JSONstringify(
       Obj(<<<<"x", Obj(<<<<"a", Num(1)>>, <<"one", Str("howdy")>>>>)>>,
             <<"y", Obj(<<<<"a", Num(2)>>, <<"two", Str("pardner")>>>>)>>>>), "  ")
  /\ calls[1].out.ok /\ calls[3].out.ok
  /\ calls[1].out.evaluated = <<<<0, TRUE>>, <<0, FALSE>>, <<1, TRUE>>>>
  /\ calls[3].out.evaluated = calls[1].out.evaluated
  /\ calls[2].out.value # calls[1].arg
  /\ DeepEquals(calls[3].out.value, calls[1].out.value)

RECURSIVE Plain(_)
\* built from string, number, boolean, nil, literal, array, record, object
\* and union only
Plain(c) ==
  CASE c.t = "stackwrap" -> c.upstream.t = "validated"
    [] c.t = "array" -> Plain(c.itemSchema)
    [] c.t = "record" -> Plain(c.keySchema) /\ Plain(c.valueSchema)
    [] c.t = "object" -> \A i \in 1..Len(c.declared) : Plain(c.declared[i][2])
    [] c.t = "union" ->
         \A i \in 1..Len(c.discriminators) : Plain(c.discriminators[i].bound)
    [] OTHER -> FALSE

RECURSIVE Conforms(_, _)
\* x has the shape the plain contract c declares: a list for array, a
\* mapping for record, a mapping with exactly the declared keys for object,
\* the shape of the first variant that claims it for union
Conforms(c, x) ==
  CASE c.t = "stackwrap" -> Validates(c.upstream.validator, x)
    [] c.t = "array" ->
         x.k = "array" /\ \A i \in 1..Len(x.a) : Conforms(c.itemSchema, x.a[i])
    [] c.t = "record" ->
         /\ x.k = "object"
         /\ \A i \in 1..Len(x.o) :
              /\ Conforms(c.keySchema, Str(x.o[i][1]))
              /\ Conforms(c.valueSchema, x.o[i][2])
    [] c.t = "object" ->
         /\ x.k = "object"
         /\ {x.o[i][1] : i \in 1..Len(x.o)}
              = {c.declared[i][1] : i \in 1..Len(c.declared)}
         /\ \A i \in 1..Len(c.declared) :
              Conforms(c.declared[i][2], Lookup(x.o, c.declared[i][1]))
    [] c.t = "union" ->
         LET claims == {i \in 1..Len(c.discriminators) :
                          Discriminate(c.discriminators[i], x).matched}
             first == CHOOSE i \in claims : \A j \in claims : i <= j
         IN /\ x.k \notin {"null", "undefined"}
            /\ claims # {}
            /\ Conforms(c.discriminators[first].bound, x)
    [] OTHER -> FALSE

\* transform(v) returned on a plain contract and restore was given the result
TransformedThenRestored ==
  /\ Plain(contract)
  /\ Len(calls) >= 2
  /\ calls[1].op = "transform" /\ calls[1].out.ok
  /\ calls[2].op = "restore"

\* C2 as claimed: for every contract built from string, number, boolean,
\* nil, literal, array, record, object and union and every v for which
\* transform(v) returns, restore(transform(v)) returns a value equal to v.
C2_TransformRoundTrip ==
  TransformedThenRestored =>
    /\ calls[2].out.ok
    /\ DeepEquals(calls[2].out.value, calls[1].arg)

\* C2 amended: the same for every v of the shape the contract declares,
\* a mapping given to an object contract carrying exactly the declared
\* keys; object.transform drops every other key.
C2_TransformRoundTripOfDeclaredShape ==
  (TransformedThenRestored /\ Conforms(contract, calls[1].arg)) =>
    /\ calls[2].out.ok
    /\ DeepEquals(calls[2].out.value, calls[1].arg)

\* a record of unions transformed a mapping whose two values took
\* different variants, and restored it
C2_Witness ==
  /\ contract = record(string, testUnion)
  /\ TransformedThenRestored
  /\ Conforms(contract, calls[1].arg)
  /\ Len(calls[1].arg.o) = 2
  /\ calls[1].out.evaluated = <<<<0, TRUE>>, <<0, FALSE>>, <<1, TRUE>>>>
  /\ calls[2].out.ok

(* ------------------------------------------------------------------ *)
(* Union                                                               *)
(* ------------------------------------------------------------------ *)

\* C3: union.transform and union.restore evaluate the discriminators in
\* declaration order up to the lowest-index one that returns a contract,
\* delegate to that contract with the stack extended by its index and
\* evaluate none after it; when every discriminator returns false (also
\* when there is none) they raise 'No matching union discriminator'.
C3_UnionFirstMatch ==
  contract.t = "union" =>
    \A n \in 1..Len(calls) :
      LET call == calls[n]
          ds == contract.discriminators
          answer(j) == Discriminate(ds[j], call.arg)
          stops == {j \in 1..Len(ds) : answer(j).matched \/ answer(j).threw}
          first == CHOOSE j \in stops : \A k \in stops : j <= k
          asked == IF stops = {} THEN Len(ds) ELSE first
          inOrder == [j \in 1..asked |-> <<j - 1, answer(j).matched>>]
          delegated ==
            Call(call.op, ds[first].bound, call.arg,
                 <<"union:" \o call.op \o "[" \o ToString(first - 1) \o "]">>)
      IN /\ IsPrefix(inOrder, call.out.evaluated)
         /\ stops = {} =>
              /\ call.out.error = "TransformationError"
              /\ call.out.message = "No matching union discriminator"
              /\ call.out.location = "union:" \o call.op \o "(!!)"
              /\ call.out.evaluated = inOrder
         /\ (stops # {} /\ answer(first).matched) =>
              call.out = [delegated EXCEPT !.evaluated = inOrder \o @]

\* the second of three discriminators is the first to match, the third
\* matches too, and the second's contract restored the literal
C3_Witness ==
  /\ contract = union(<<FieldIs("a", Num(2), twoSchema), Always(oneSchema), Always(any)>>)
  /\ Len(calls) >= 1
  /\ calls[1].op = "restore"
  /\ calls[1].arg = Obj(<<<<"a", Num(1)>>, <<"one", Str("howdy")>>,
                          <<"two", Str("pardner")>>>>)
  /\ calls[1].out.ok
  /\ calls[1].out.evaluated = <<<<0, FALSE>>, <<1, TRUE>>>>
  /\ Keys(calls[1].out.value.o) = <<"a", "one">>

(* ------------------------------------------------------------------ *)
(* Default configuration                                               *)
(* ------------------------------------------------------------------ *)

\* C5: a document contract built without a configuration uses the default
\* that was current when document() was called, whatever the default has
\* been replaced by since; one built after a replacement uses the new one.
C5_DefaultCapturedAtBuild ==
  defaultAtBuild # "explicit" =>
    \A n \in 1..Len(calls) :
      LET call == calls[n]
          lit == transform(contract.schema, call.arg, <<"document:transform">>)
          parsed == Deserializer(defaultAtBuild, call.arg)
      IN IF call.op = "transform"
         THEN call.out.ok =>
                /\ lit.ok
                /\ call.out.value = Serializer(defaultAtBuild, lit.value)
         ELSE IF parsed.ok
              THEN call.out = restore(contract.schema, parsed.val, <<"document:restore">>)
              ELSE call.out.error = "SyntaxError"

\* built while the default was the compact preset, used after the default
\* was set back to the pretty one: the text is compact
C5_Witness ==
  /\ defaultAtBuild = JsonSerializationConfig
  /\ DefaultSerializationConfig = JsonPrettySerializationConfig
  /\ contract.schema = howdySchema
  /\ Len(calls) = 1
  /\ calls[1].op = "transform"
  /\ calls[1].out.ok
  /\ calls[1].out.value = Str("{\"howdy\":\"pardner\"}")

(* ------------------------------------------------------------------ *)
(* Error trail                                                         *)
(* ------------------------------------------------------------------ *)

Under(tag, trails) == {<<tag>> \o p : p \in trails}

RECURSIVE Trails(_, _, _)
\* the tags along every descent from a call of contract c on x down to a
\* place that can raise a failure, outermost first
Trails(dir, c, x) ==
  CASE c.t = "any" -> {}
    [] c.t = "validated" -> {<<>>}
    [] c.t = "optional" ->
         IF x.k = "undefined" THEN {} ELSE Trails(dir, c.schema, x)
    [] c.t = "stackwrap" -> Under(c.thisMessage, Trails(dir, c.upstream, x))
    [] c.t = "array" ->
         IF x.k # "array"
         THEN (IF dir = "restore" THEN {<<"array:restore">>} ELSE {})
         ELSE UNION {Under("array:" \o dir \o "[" \o ToString(i - 1) \o "]",
                           Trails(dir, c.itemSchema, x.a[i])) : i \in 1..Len(x.a)}
    [] c.t = "record" ->
         IF x.k \in {"null", "undefined"} THEN {}
         ELSE LET es == Entries(x) IN
              UNION {Under("record:" \o dir \o "['key of " \o es[i][1] \o "']",
                           Trails(dir, c.keySchema, Str(es[i][1])))
                       \cup Under("record:" \o dir \o "[value of '" \o es[i][1] \o "']",
                                  Trails(dir, c.valueSchema, es[i][2]))
                     : i \in 1..Len(es)}
    [] c.t = "object" ->
         (IF dir = "restore" THEN {<<"object:transform">>} ELSE {})
           \cup (IF x.k \in {"null", "undefined"} THEN {}
                 ELSE UNION {Under("object:" \o dir \o "['" \o c.declared[i][1] \o "']",
                                   Trails(dir, c.declared[i][2],
                                          Get(x, c.declared[i][1])))
                             : i \in 1..Len(c.declared)})
    [] c.t = "union" ->
         {<<"union:" \o dir>>}
           \cup UNION {Under("union:" \o dir \o "[" \o ToString(i - 1) \o "]",
                             Trails(dir, c.discriminators[i].bound, x))
                       : i \in 1..Len(c.discriminators)}
    [] c.t = "document" ->
         IF dir = "transform"
         THEN Under("document:transform", Trails(dir, c.schema, x))
         ELSE LET lit == JSONparse(x) IN
              IF lit.ok THEN Under("document:restore", Trails(dir, c.schema, lit.val))
              ELSE {}

\* C6: the location of a Transformation Failure is the tags appended along
\* one descent from the outermost call to the failing contract, outermost
\* first, joined by arrows; tags of keys and indices handled earlier are
\* not in it.
C6_TrailIsDescentPath ==
  \A n \in 1..Len(calls) :
    calls[n].out.error = "TransformationError" =>
      \E p \in Trails(calls[n].op, contract, calls[n].arg) :
        calls[n].out.location = JoinWith(p, " -> ") \o "(!!)"

\* the second element of the list under the second key is bad, after the
\* first key and the first element were restored
C6_Witness ==
  /\ contract = object(<<<<"a", string>>, <<"k", array(number)>>>>)
  /\ Len(calls) = 1
  /\ calls[1].op = "restore"
  /\ calls[1].arg = Obj(<<<<"k", Arr(<<Num(1), Str("x")>>)>>, <<"a", Str("x")>>>>)
  /\ calls[1].out.error = "TransformationError"
  /\ calls[1].out.location = "object:restore['k'] -> array:restore[1] -> number(!!)"

(* ------------------------------------------------------------------ *)
(* Object                                                              *)
(* ------------------------------------------------------------------ *)

\* C4: object.restore on a mapping raises "Missing required object key
\* '<key>'" for the first key, in declaration order, that the mapping does
\* not have and whose contract is not optional, whatever the values under
\* the other keys; when it returns, a declared optional key the mapping
\* does not have is undefined in the result.  Stated for the schemas none
\* of whose keys is an array index: Object.keys lists their keys in
\* declaration order.
C4_MissingRequiredKey ==
  (contract.t = "object"
     /\ \A i \in 1..Len(contract.declared) : ~IsArrayIndex(contract.declared[i][1])) =>
    \A n \in 1..Len(calls) :
      LET call == calls[n]
          declared == contract.declared
          absent(i) == ~HasKey(call.arg.o, declared[i][1])
          missing == {i \in 1..Len(declared) :
                        absent(i) /\ ~IsOptional(declared[i][2])}
          first == CHOOSE i \in missing : \A j \in missing : i <= j
      IN (call.op = "restore" /\ call.arg.k = "object") =>
           /\ missing # {} =>
                /\ call.out.error = "TransformationError"
                /\ call.out.message =
                     "Missing required object key '" \o declared[first][1] \o "'"
           /\ call.out.ok =>
                \A i \in 1..Len(declared) :
                  absent(i) => Lookup(call.out.value.o, declared[i][1]) = Undefined

\* what transform of the child contract under the i-th declared key gives
ChildTransform(c, x, i) ==
  transform(c.declared[i][2], Get(x, c.declared[i][1]),
            <<"object:transform['" \o c.declared[i][1] \o "']">>)

\* the values of a transform that returned, and the failure of one that
\* did not, are those of the child contracts
OnlyChildren(call) ==
  IF call.out.ok
  THEN \A i \in 1..Len(contract.declared) :
         /\ ChildTransform(contract, call.arg, i).ok
         /\ Lookup(call.out.value.o, contract.declared[i][1])
              = ChildTransform(contract, call.arg, i).value
  ELSE \E i \in 1..Len(contract.declared) :
         /\ ~ChildTransform(contract, call.arg, i).ok
         /\ call.out = ChildTransform(contract, call.arg, i)

\* C10 as claimed: the literal object.transform returns has one entry per
\* declared key, in declaration order, holding the child contract's
\* transform of the input's value under that key, and no other key;
\* transform checks neither key presence nor shape itself.
C10_TransformKeysAsDeclared ==
  contract.t = "object" =>
    \A n \in 1..Len(calls) :
      (calls[n].op = "transform" /\ calls[n].arg.k \notin {"null", "undefined"}) =>
        /\ calls[n].out.ok => Keys(calls[n].out.value.o) = Keys(contract.declared)
        /\ OnlyChildren(calls[n])

\* C10 amended: the same, the entries being in the order in which the
\* schema object enumerates its keys: keys that are array indices first,
\* ascending, then the other keys in declaration order.
C10_TransformKeysAsEnumerated ==
  contract.t = "object" =>
    \A n \in 1..Len(calls) :
      (calls[n].op = "transform" /\ calls[n].arg.k \notin {"null", "undefined"}) =>
        /\ calls[n].out.ok =>
             Keys(calls[n].out.value.o) = Keys(OwnPropertyOrder(contract.declared))
        /\ OnlyChildren(calls[n])

\* a schema declared { b, 1 } transformed an input that has a third key:
\* the result has the keys 1 and b, in this order
C10_Witness ==
  /\ contract = object(<<<<"b", string>>, <<"1", number>>>>)
  /\ Len(calls) = 1
  /\ calls[1].op = "transform"
  /\ calls[1].arg.k = "object"
  /\ HasKey(calls[1].arg.o, "extra")
  /\ calls[1].out.ok
  /\ calls[1].out.value.o = <<<<"1", Num(2)>>, <<"b", Str("y")>>>>

(* ------------------------------------------------------------------ *)
(* Failures                                                            *)
(* ------------------------------------------------------------------ *)

\* C7: transform and restore of a validated contract on a value v its
\* predicate rejects raise a Transformation Failure whose message is the
\* reason computed from v: string().restore(42) says received 'number'.
C7_RejectionMessageFromValue ==
  (contract.t = "stackwrap" /\ contract.upstream.t = "validated") =>
    \A n \in 1..Len(calls) :
      ~Validates(contract.upstream.validator, calls[n].arg) =>
        /\ calls[n].out.error = "TransformationError"
        /\ calls[n].out.message = Reason(contract.upstream.reason, calls[n].arg)

RECURSIVE HasUnion(_)
\* c calls discriminators, which are the caller's code
HasUnion(c) ==
  CASE c.t = "union" -> TRUE
    [] c.t = "optional" -> HasUnion(c.schema)
    [] c.t = "stackwrap" -> HasUnion(c.upstream)
    [] c.t = "record" -> HasUnion(c.keySchema) \/ HasUnion(c.valueSchema)
    [] c.t = "array" -> HasUnion(c.itemSchema)
    [] c.t = "object" -> \E i \in 1..Len(c.declared) : HasUnion(c.declared[i][2])
    [] c.t = "document" -> HasUnion(c.schema)
    [] OTHER -> FALSE

\* C8: restore of any contract on any literal, or for a document on any
\* text, returns a value or raises a Transformation Failure, no other
\* error; a record given something that is not a mapping, an array given
\* something that is not a list and an object given something that is not
\* a mapping do not return.  Stated for the contracts without a union,
\* whose discriminators are the caller's code and may throw.
C8_RestoreTotalOneErrorKind ==
  ~HasUnion(contract) =>
    \A n \in 1..Len(calls) :
      (calls[n].op = "restore" /\ calls[n].arg.k # "undefined") =>
        /\ calls[n].out.ok \/ calls[n].out.error = "TransformationError"
        /\ (contract.t \in {"record", "object"} /\ calls[n].arg.k # "object")
             => ~calls[n].out.ok
        /\ (contract.t = "array" /\ calls[n].arg.k # "array") => ~calls[n].out.ok

\* C9: literal(c).transform(v) and literal(c).restore(v) return v when v
\* is deeply equal to c, also when v is another list or mapping than c,
\* and raise a Transformation Failure for every other v.
C9_LiteralDeepEquality ==
  (contract.t = "stackwrap" /\ contract.upstream.t = "validated"
     /\ contract.upstream.validator.p = "equals") =>
    \A n \in 1..Len(calls) :
      IF DeepEquals(calls[n].arg, contract.upstream.validator.value)
      THEN calls[n].out.ok /\ calls[n].out.value = calls[n].arg
      ELSE calls[n].out.error = "TransformationError"


(* ------------------------------------------------------------------ *)
(* Trail direction                                                     *)
(* ------------------------------------------------------------------ *)

\* part occurs in text
Contains(text, part) ==
  \E i \in 1..(Len(text) - Len(part) + 1) :
    SubSeq(text, i, i + Len(part) - 1) = part

Opposite(dir) == IF dir = "restore" THEN "transform" ELSE "restore"

\* C11: every combinator tag in the location of a Transformation Failure
\* raised during a restore call names restore, and during a transform call
\* names transform; the 'Not an object' and 'Missing required object key'
\* failures of object.restore carry a restore tag, never a transform tag.
C11_TrailNamesDirection ==
  \A n \in 1..Len(calls) :
    calls[n].out.error = "TransformationError" =>
      /\ ~Contains(calls[n].out.location, ":" \o Opposite(calls[n].op))
      /\ (Contains(calls[n].out.message, "Not an object")
            \/ Contains(calls[n].out.message, "Missing required object key"))
           => Contains(calls[n].out.location, "object:restore")

====
